---- MODULE Spec2Model ----
(***************************************************************************)
(* ShopTrack Pro: the inventory / order ledger.                            *)
(*                                                                         *)
(* The database (tables, CHECK constraints, row-level-security policies    *)
(* and triggers of supabase/migrations) is modelled as a record `db`; every *)
(* SQL statement the client issues is an operator from a database to a     *)
(* result [error, rows, seen, db].  A statement is atomic: when a policy,  *)
(* a constraint or a trigger raises, the database is left as it was.       *)
(* The React handlers (CartContext, Checkout, Dashboard) are sequences of  *)
(* such statements; every await is a point where other users interleave.   *)
(***************************************************************************)
EXTENDS Integers, Sequences, FiniteSets, TLC

(* ------------------------------ bounds -------------------------------- *)
InitStock == 3
MaxQty == 2
MaxAudit == 4
MaxLog == MaxAudit
MaxOrders == 1
MaxReturns == 1

(* ------------------------------ universe ------------------------------ *)
Users == {"admin", "alice", "bob"}
Anon == "anon"
Actors == Users \cup {Anon}
Products == {"p1", "p2"}
price == [p \in Products |-> IF p = "p1" THEN 1 ELSE 2]
categories == {"c1", "c2"}
category_id == [p \in Products |-> IF p = "p1" THEN "c1" ELSE "c2"]

app_role == {"admin", "customer"}
order_status == {"pending", "processing", "completed", "cancelled"}
payment_mode == {"UPI", "Card", "COD"}
return_status == {"pending", "approved", "rejected", "restocked"}

\* CHECK (change_type IN ...) as the first migration creates it.
change_type_created == {"restock", "sale", "adjustment"}
\* The change types the triggers and handlers of the later migrations write.
change_type_written == {"sale", "return", "cart_reserved", "cart_released"}

NoRow == [user_id |-> Anon, product_id |-> "none", quantity |-> 0]

VARIABLES
  auth_users,        \* auth.users: the accounts that exist
  profiles,          \* public.profiles (primary key id)
  user_roles,        \* public.user_roles: set of <<user_id, role>>, UNIQUE
  products,          \* public.products: the ids of the rows that exist
  stock,             \* products.stock
  discount_percentage, \* products.discount_percentage
  cart_items,        \* cart_items[u][p]: quantity of the line, 0 = no line
  orders,            \* sequence of order rows; the id is the index
  order_items,       \* sequence of order line rows
  returns,           \* sequence of return rows
  payments,          \* sequence of payment rows
  inventory_logs,    \* sequence of inventory log rows
  audit_logs,        \* sequence of audit log rows
  change_type_check, \* the change types inventory_logs accepts
  items,             \* CartContext: items[u], the local snapshot of u's cart
  co,                \* Checkout: handleCheckout's position and locals, per user
  ra,                \* Dashboard: handleReturnAction's position and locals
  last               \* the last statement issued: who, what, and its result

tables == <<auth_users, profiles, user_roles, products, stock,
            discount_percentage,
            cart_items, orders,
            order_items, returns, payments, inventory_logs, audit_logs,
            change_type_check>>
vars == <<auth_users, profiles, user_roles, products, stock,
          discount_percentage,
          cart_items, orders,
          order_items, returns, payments, inventory_logs, audit_logs,
          change_type_check, items, co, ra, last>>

DB == [auth_users |-> auth_users, profiles |-> profiles,
       user_roles |-> user_roles, products |-> products, stock |-> stock,
       discount_percentage |-> discount_percentage, cart_items |-> cart_items,
       orders |-> orders, order_items |-> order_items, returns |-> returns,
       payments |-> payments, inventory_logs |-> inventory_logs,
       audit_logs |-> audit_logs, change_type_check |-> change_type_check]

Commit(d) ==
  /\ auth_users' = d.auth_users
  /\ profiles' = d.profiles
  /\ user_roles' = d.user_roles
  /\ products' = d.products
  /\ stock' = d.stock
  /\ discount_percentage' = d.discount_percentage
  /\ cart_items' = d.cart_items
  /\ orders' = d.orders
  /\ order_items' = d.order_items
  /\ returns' = d.returns
  /\ payments' = d.payments
  /\ inventory_logs' = d.inventory_logs
  /\ audit_logs' = d.audit_logs
  /\ change_type_check' = d.change_type_check

\* The model's caps on the unbounded tables.
Within(d) ==
  /\ Len(d.audit_logs) <= MaxAudit
  /\ Len(d.inventory_logs) <= MaxLog
  /\ Len(d.orders) <= MaxOrders
  /\ Len(d.returns) <= MaxReturns

(* --------------------- statements inside a transaction ----------------- *)
\* A transaction in progress: the database so far, and whether it still stands.
Tx(d) == [ok |-> TRUE, db |-> d]
Abort(tx) == [tx EXCEPT !.ok = FALSE]

has_role(d, _user_id, _role) == <<_user_id, _role>> \in d.user_roles

\* Variant: the products table without its CHECK on stock.
products_stock_check_absent(n) == TRUE

\* products: CHECK (stock >= 0)
products_stock_check(n) == n >= 0

\* products: CHECK (discount_percentage >= 0 AND discount_percentage <= 100)
products_discount_check(n) == n >= 0 /\ n <= 100

\* inventory_logs: CHECK (change_type IN (...))
inventory_logs_change_type_check(d, t) == t \in d.change_type_check

\* AFTER UPDATE ON products FOR EACH ROW: one audit row, old and new value.
audit_product_changes(tx, uid, p, old, new) ==
  [tx EXCEPT !.db.audit_logs =
     Append(@, [user_id |-> uid, action |-> "UPDATE", table_name |-> "products",
                record_id |-> p, old_values |-> old, new_values |-> new])]

\* Variant: the stock is written whatever its sign.
SetStock_unchecked(tx, uid, p, n) ==
  IF ~tx.ok THEN tx
  ELSE audit_product_changes([tx EXCEPT !.db.stock[p] = n],
                             uid, p, tx.db.stock[p], n)

\* UPDATE products SET stock = n WHERE id = p, as the table owner.
SetStock(tx, uid, p, n) ==
  IF ~tx.ok THEN tx
  ELSE IF ~products_stock_check(n) THEN Abort(tx)
  ELSE audit_product_changes([tx EXCEPT !.db.stock[p] = n],
                             uid, p, tx.db.stock[p], n)

\* Variant: a log insert that writes nothing.
LogInsert_dropped(tx, p, q, t) == tx

\* INSERT INTO inventory_logs (product_id, quantity, change_type), as the owner.
LogInsert(tx, p, q, t) ==
  IF ~tx.ok THEN tx
  ELSE IF ~inventory_logs_change_type_check(tx.db, t) THEN Abort(tx)
  ELSE [tx EXCEPT !.db.inventory_logs =
          Append(@, [product_id |-> p, quantity |-> q, change_type |-> t])]

\* The result of a statement: the new database when the transaction stands.
Result(d, tx, n, s) ==
  IF tx.ok THEN [error |-> FALSE, rows |-> n, seen |-> s, db |-> tx.db]
  ELSE [error |-> TRUE, rows |-> 0, seen |-> {}, db |-> d]
Rejected(d) == [error |-> TRUE, rows |-> 0, seen |-> {}, db |-> d]
NoRows(d) == [error |-> FALSE, rows |-> 0, seen |-> {}, db |-> d]

(* ------------------------------ triggers ------------------------------- *)
\* Variant: a cart trigger whose DELETE branch logs the release but does not
\* give the stock back.
update_stock_on_cart_change_no_release(tx, uid, TG_OP, old, new) ==
  IF TG_OP = "INSERT" THEN
    LogInsert(SetStock(tx, uid, new.product_id,
                       tx.db.stock[new.product_id] - new.quantity),
              new.product_id, -new.quantity, "cart_reserved")
  ELSE IF TG_OP = "UPDATE" THEN
    LET t1 == SetStock(tx, uid, new.product_id,
                 tx.db.stock[new.product_id] - (new.quantity - old.quantity))
    IN IF new.quantity > old.quantity
         THEN LogInsert(t1, new.product_id, -(new.quantity - old.quantity),
                        "cart_reserved")
       ELSE IF new.quantity < old.quantity
         THEN LogInsert(t1, new.product_id, old.quantity - new.quantity,
                        "cart_released")
       ELSE t1
  ELSE
    LogInsert(tx, old.product_id, old.quantity, "cart_released")

\* Variant: a cart trigger whose UPDATE branch reserves the whole new quantity
\* instead of the difference.
update_stock_on_cart_change_whole(tx, uid, TG_OP, old, new) ==
  IF TG_OP = "INSERT" THEN
    LogInsert(SetStock(tx, uid, new.product_id,
                       tx.db.stock[new.product_id] - new.quantity),
              new.product_id, -new.quantity, "cart_reserved")
  ELSE IF TG_OP = "UPDATE" THEN
    LogInsert(SetStock(tx, uid, new.product_id,
                       tx.db.stock[new.product_id] - new.quantity),
              new.product_id, -new.quantity, "cart_reserved")
  ELSE
    LogInsert(SetStock(tx, uid, old.product_id,
                       tx.db.stock[old.product_id] + old.quantity),
              old.product_id, old.quantity, "cart_released")

update_stock_on_cart_change(tx, uid, TG_OP, old, new) ==
  IF TG_OP = "INSERT" THEN
    LogInsert(SetStock(tx, uid, new.product_id,
                       tx.db.stock[new.product_id] - new.quantity),
              new.product_id, -new.quantity, "cart_reserved")
  ELSE IF TG_OP = "UPDATE" THEN
    LET t1 == SetStock(tx, uid, new.product_id,
                 tx.db.stock[new.product_id] - (new.quantity - old.quantity))
    IN IF new.quantity > old.quantity
         THEN LogInsert(t1, new.product_id, -(new.quantity - old.quantity),
                        "cart_reserved")
       ELSE IF new.quantity < old.quantity
         THEN LogInsert(t1, new.product_id, old.quantity - new.quantity,
                        "cart_released")
       ELSE t1
  ELSE
    LogInsert(SetStock(tx, uid, old.product_id,
                       tx.db.stock[old.product_id] + old.quantity),
              old.product_id, old.quantity, "cart_released")

\* Variant: an order trigger that logs the sale but leaves the stock alone.
update_stock_on_order_log_only(tx, uid, new) ==
  LogInsert(tx, new.product_id, -new.quantity, "sale")

update_stock_on_order(tx, uid, new) ==
  LogInsert(SetStock(tx, uid, new.product_id,
                     tx.db.stock[new.product_id] - new.quantity),
            new.product_id, -new.quantity, "sale")

\* The trigger's WHEN (NEW.status = 'restocked') and the function's own IF.
restock_on_return(tx, uid, old, new) ==
  IF new.status = "restocked" /\ old.status # "restocked" THEN
    LogInsert(SetStock(tx, uid, new.product_id,
                       tx.db.stock[new.product_id] + new.quantity),
              new.product_id, new.quantity, "return")
  ELSE tx

\* Variant: a sign-up trigger that also grants the admin role.
handle_new_user_admin(tx, new) ==
  [tx EXCEPT !.db.profiles = @ \cup {new},
             !.db.user_roles = @ \cup {<<new, "customer">>, <<new, "admin">>}]

handle_new_user(tx, new) ==
  [tx EXCEPT !.db.profiles = @ \cup {new},
             !.db.user_roles = @ \cup {<<new, "customer">>}]

(* ----------------------- row-level-security policies ------------------- *)
\* auth.uid() of an anonymous request is NULL: it equals no user_id, holds no role.
cart_items_select(d, uid, user_id) == uid = user_id
cart_items_insert(d, uid, user_id) == uid = user_id
cart_items_update(d, uid, user_id) == uid = user_id
cart_items_delete(d, uid, user_id) == uid = user_id

\* Variant: a user_roles INSERT policy that lets a user grant roles to itself.
user_roles_insert_self(d, uid, user_id) == uid = user_id

\* user_roles: own rows are visible; only admins insert, update and delete.
user_roles_select(d, uid, user_id) == uid = user_id
user_roles_insert(d, uid, user_id) == uid # Anon /\ has_role(d, uid, "admin")
user_roles_update(d, uid) == uid # Anon /\ has_role(d, uid, "admin")
user_roles_delete(d, uid) == uid # Anon /\ has_role(d, uid, "admin")

\* Variant: a products UPDATE policy open to every caller.
products_update_open(d, uid) == TRUE

products_update(d, uid) == uid # Anon /\ has_role(d, uid, "admin")
products_delete(d, uid) == uid # Anon /\ has_role(d, uid, "admin")

\* Variant: an orders SELECT policy without the ownership test.
orders_select_any(d, uid, user_id) == uid # Anon

orders_select(d, uid, user_id) ==
  uid # Anon /\ (uid = user_id \/ has_role(d, uid, "admin"))
orders_insert(d, uid, user_id) == uid = user_id
\* Variant: an orders UPDATE policy open to every signed-in user.
orders_update_any(d, uid) == uid # Anon

orders_update(d, uid) == uid # Anon /\ has_role(d, uid, "admin")
\* No policy FOR DELETE exists on orders or returns: no row is ever visible to one.
orders_delete(d, uid) == FALSE

OrderOwnedBy(d, order_id, uid) ==
  order_id \in 1..Len(d.orders) /\ d.orders[order_id].user_id = uid

order_items_insert(d, uid, order_id) == OrderOwnedBy(d, order_id, uid)

returns_insert(d, uid, order_id) == OrderOwnedBy(d, order_id, uid)
returns_select(d, uid, order_id) ==
  OrderOwnedBy(d, order_id, uid) \/ has_role(d, uid, "admin")
returns_update(d, uid) == has_role(d, uid, "admin")
returns_delete(d, uid) == FALSE

inventory_logs_insert(d, uid) == uid # Anon /\ has_role(d, uid, "admin")
payments_insert(d, uid) == has_role(d, uid, "admin")

(* ------------------------------ statements ----------------------------- *)
CartRow(u, p, q) == [user_id |-> u, product_id |-> p, quantity |-> q]

\* supabase.from('cart_items').insert({user_id, product_id, quantity})
insert_cart_items(d, uid, user_id, product_id, quantity) ==
  IF ~cart_items_insert(d, uid, user_id) THEN Rejected(d)
  ELSE IF user_id \notin d.auth_users THEN Rejected(d)
  ELSE IF product_id \notin d.products THEN Rejected(d)
  ELSE IF ~(quantity > 0) THEN Rejected(d)
  ELSE IF d.cart_items[user_id][product_id] # 0 THEN Rejected(d)
  ELSE Result(d,
         update_stock_on_cart_change(
           Tx([d EXCEPT !.cart_items[user_id][product_id] = quantity]),
           uid, "INSERT", NoRow, CartRow(user_id, product_id, quantity)),
         1, {})

\* supabase.from('cart_items').update({quantity}).eq(user_id).eq(product_id)
update_cart_items(d, uid, user_id, product_id, quantity) ==
  IF d.cart_items[user_id][product_id] = 0 THEN NoRows(d)
  ELSE IF ~(cart_items_select(d, uid, user_id)
            /\ cart_items_update(d, uid, user_id)) THEN NoRows(d)
  ELSE IF ~(quantity > 0) THEN Rejected(d)
  ELSE Result(d,
         update_stock_on_cart_change(
           Tx([d EXCEPT !.cart_items[user_id][product_id] = quantity]),
           uid, "UPDATE",
           CartRow(user_id, product_id, d.cart_items[user_id][product_id]),
           CartRow(user_id, product_id, quantity)),
         1, {})

\* Variant: the rows are deleted without the row trigger firing.
DeleteCartRows_untriggered(tx, uid, user_id, ord) ==
  IF ~tx.ok THEN tx
  ELSE [tx EXCEPT !.db.cart_items[user_id] =
          [p \in Products |->
             IF \E i \in 1..Len(ord) : ord[i] = p THEN 0 ELSE @[p]]]

\* The rows of a DELETE FROM cart_items, one at a time in the order `ord`
\* (a sequence of products): each fires the row trigger.
RECURSIVE DeleteCartRows(_, _, _, _)
DeleteCartRows(tx, uid, user_id, ord) ==
  IF ord = <<>> THEN tx
  ELSE LET p == Head(ord)
           q == tx.db.cart_items[user_id][p]
       IN DeleteCartRows(
            update_stock_on_cart_change(
              [tx EXCEPT !.db.cart_items[user_id][p] = 0],
              uid, "DELETE", CartRow(user_id, p, q), NoRow),
            uid, user_id, Tail(ord))

\* The products of user_id's cart lines among ps that uid's DELETE reaches.
CartRowsFor(d, uid, user_id, ps) ==
  IF cart_items_select(d, uid, user_id) /\ cart_items_delete(d, uid, user_id)
  THEN {p \in ps : d.cart_items[user_id][p] # 0} ELSE {}

\* The orders in which a set of at most two rows can be visited.
Orderings(S) ==
  {s \in UNION {[1..n -> S] : n \in 0..Cardinality(Products)} :
     /\ Len(s) = Cardinality(S)
     /\ \A i, j \in 1..Len(s) : i # j => s[i] # s[j]}

\* supabase.from('cart_items').delete().eq(user_id)[.eq(product_id)]
delete_cart_items(d, uid, user_id, ord) ==
  Result(d, DeleteCartRows(Tx(d), uid, user_id, ord), Len(ord), {})

\* supabase.from('cart_items').select(...).eq('user_id', user_id)
select_cart_items(d, uid, user_id) ==
  [error |-> FALSE,
   rows |-> Cardinality({p \in Products : d.cart_items[user_id][p] # 0
                                          /\ cart_items_select(d, uid, user_id)}),
   seen |-> IF cart_items_select(d, uid, user_id)
               /\ \E p \in Products : d.cart_items[user_id][p] # 0
            THEN {user_id} ELSE {},
   db |-> d]

\* supabase.from('orders').insert({user_id, total, status: 'pending',
\* payment_mode}).select().single(): rows is the new order's id.
insert_orders(d, uid, user_id, total, mode) ==
  IF ~orders_insert(d, uid, user_id) THEN Rejected(d)
  ELSE IF user_id \notin d.auth_users THEN Rejected(d)
  ELSE IF ~(total > 0) \/ mode \notin payment_mode THEN Rejected(d)
  ELSE [error |-> FALSE, rows |-> Len(d.orders) + 1, seen |-> {user_id},
        db |-> [d EXCEPT !.orders =
                  Append(@, [user_id |-> user_id, total |-> total,
                             status |-> "pending", payment_mode |-> mode])]]

\* supabase.from('orders').update({status}).eq('id', id)
update_orders(d, uid, id, status) ==
  IF id \notin 1..Len(d.orders) THEN NoRows(d)
  ELSE IF ~(orders_select(d, uid, d.orders[id].user_id) /\ orders_update(d, uid))
    THEN NoRows(d)
  ELSE IF status \notin order_status THEN Rejected(d)
  ELSE [error |-> FALSE, rows |-> 1, seen |-> {},
        db |-> [d EXCEPT !.orders[id].status = status]]

\* DELETE FROM orders WHERE id = id: the rows a DELETE policy lets through.
delete_orders(d, uid, id) ==
  IF id \notin 1..Len(d.orders) \/ ~orders_delete(d, uid) THEN NoRows(d)
  ELSE [error |-> FALSE, rows |-> 1, seen |-> {},
        db |-> [d EXCEPT !.orders[id].status = "deleted"]]

\* supabase.from('orders').select(): the owners of the rows returned.
select_orders(d, uid) ==
  [error |-> FALSE,
   rows |-> Cardinality({i \in 1..Len(d.orders) :
                           orders_select(d, uid, d.orders[i].user_id)}),
   seen |-> {d.orders[i].user_id : i \in {j \in 1..Len(d.orders) :
                           orders_select(d, uid, d.orders[j].user_id)}},
   db |-> d]

\* supabase.from('order_items').insert({order_id, product_id, quantity, price})
insert_order_items(d, uid, order_id, product_id, quantity) ==
  IF ~order_items_insert(d, uid, order_id) THEN Rejected(d)
  ELSE IF product_id \notin d.products THEN Rejected(d)
  ELSE IF ~(quantity > 0) THEN Rejected(d)
  ELSE LET row == [order_id |-> order_id, product_id |-> product_id,
                   quantity |-> quantity, price |-> price[product_id]]
       IN Result(d,
            update_stock_on_order(
              Tx([d EXCEPT !.order_items = Append(@, row)]), uid, row),
            1, {})

\* supabase.from('products').update({stock}).eq('id', product_id)
update_products(d, uid, product_id, n) ==
  IF ~products_update(d, uid) \/ product_id \notin d.products THEN NoRows(d)
  ELSE Result(d, SetStock(Tx(d), uid, product_id, n), 1, {})

\* supabase.from('products').delete().eq('id', product_id). The foreign keys
\* of cart_items, order_items, inventory_logs and returns are ON DELETE
\* CASCADE. A cascaded cart line fires update_stock_on_cart_change, whose log
\* insert names the product being deleted and breaks inventory_logs' foreign
\* key: the statement then fails as a whole.
delete_products(d, uid, product_id) ==
  IF ~products_delete(d, uid) \/ product_id \notin d.products THEN NoRows(d)
  ELSE IF \E u \in Users : d.cart_items[u][product_id] # 0 THEN Rejected(d)
  ELSE Result(d,
         Tx([d EXCEPT
               !.products = @ \ {product_id},
               !.order_items =
                  SelectSeq(@, LAMBDA r : r.product_id # product_id),
               !.inventory_logs =
                  SelectSeq(@, LAMBDA r : r.product_id # product_id),
               !.returns =
                  SelectSeq(@, LAMBDA r : r.product_id # product_id)]),
         1, {})

\* GRANT EXECUTE ON FUNCTION bulk_update_discount TO authenticated
bulk_update_discount_execute(d, uid) == uid \in d.auth_users

\* UPDATE products SET discount_percentage = n, one row at a time in the order
\* `ord`, as the function's owner: each row is checked and audited (the audit
\* row keeps the stock of OLD and NEW, which this update leaves alone).
RECURSIVE SetDiscountRows(_, _, _, _)
SetDiscountRows(tx, uid, ord, n) ==
  IF ord = <<>> \/ ~tx.ok THEN tx
  ELSE IF ~products_discount_check(n) THEN Abort(tx)
  ELSE LET p == Head(ord)
       IN SetDiscountRows(
            audit_product_changes(
              [tx EXCEPT !.db.discount_percentage[p] = n],
              uid, p, tx.db.stock[p], tx.db.stock[p]),
            uid, Tail(ord), n)

\* supabase.rpc('bulk_update_discount', {p_category_id, p_discount}): the
\* function is SECURITY DEFINER and looks at no role; rows is its return value.
bulk_update_discount(d, uid, ord, p_discount) ==
  IF ~bulk_update_discount_execute(d, uid) THEN Rejected(d)
  ELSE Result(d, SetDiscountRows(Tx(d), uid, ord, p_discount), Len(ord), {})

\* supabase.from('inventory_logs').insert({product_id, change_type, quantity})
insert_inventory_logs(d, uid, product_id, quantity, t) ==
  IF ~inventory_logs_insert(d, uid) THEN Rejected(d)
  ELSE IF product_id \notin d.products THEN Rejected(d)
  ELSE Result(d, LogInsert(Tx(d), product_id, quantity, t), 1, {})

\* supabase.from('payments').insert({order_id, amount, mode, status})
insert_payments(d, uid, order_id, amount, mode, status) ==
  IF ~payments_insert(d, uid) THEN Rejected(d)
  ELSE IF order_id \notin 1..Len(d.orders) \/ ~(amount > 0) THEN Rejected(d)
  ELSE [error |-> FALSE, rows |-> 1, seen |-> {},
        db |-> [d EXCEPT !.payments =
                  Append(@, [order_id |-> order_id, amount |-> amount,
                             mode |-> mode, status |-> status])]]

\* INSERT INTO returns (order_id, product_id, quantity, reason)
insert_returns(d, uid, order_id, product_id, quantity) ==
  IF ~returns_insert(d, uid, order_id) THEN Rejected(d)
  ELSE IF product_id \notin d.products THEN Rejected(d)
  ELSE IF ~(quantity > 0) THEN Rejected(d)
  ELSE [error |-> FALSE, rows |-> 1, seen |-> {},
        db |-> [d EXCEPT !.returns =
                  Append(@, [order_id |-> order_id, product_id |-> product_id,
                             quantity |-> quantity, status |-> "pending"])]]

\* supabase.from('returns').update({status}).eq('id', id)
update_returns(d, uid, id, status) ==
  IF id \notin 1..Len(d.returns) THEN NoRows(d)
  ELSE IF ~(returns_select(d, uid, d.returns[id].order_id)
            /\ returns_update(d, uid)) THEN NoRows(d)
  ELSE IF status \notin return_status THEN Rejected(d)
  ELSE Result(d,
         restock_on_return(Tx([d EXCEPT !.returns[id].status = status]), uid,
                           d.returns[id],
                           [d.returns[id] EXCEPT !.status = status]),
         1, {})

\* DELETE FROM returns WHERE id = id
delete_returns(d, uid, id) ==
  IF id \notin 1..Len(d.returns) \/ ~returns_delete(d, uid) THEN NoRows(d)
  ELSE [error |-> FALSE, rows |-> 1, seen |-> {},
        db |-> [d EXCEPT !.returns[id].status = "deleted"]]

\* supabase.from('returns').select(): the owners of the orders of the rows returned.
select_returns(d, uid) ==
  LET vis == {i \in 1..Len(d.returns) :
                returns_select(d, uid, d.returns[i].order_id)}
  IN [error |-> FALSE, rows |-> Cardinality(vis),
      seen |-> {d.orders[d.returns[i].order_id].user_id : i \in vis},
      db |-> d]

\* supabase.from('user_roles').insert({user_id, role})
insert_user_roles(d, uid, user_id, role) ==
  IF ~user_roles_insert(d, uid, user_id) THEN Rejected(d)
  ELSE IF user_id \notin d.auth_users THEN Rejected(d)
  ELSE IF <<user_id, role>> \in d.user_roles THEN Rejected(d)
  ELSE Result(d, Tx([d EXCEPT !.user_roles = @ \cup {<<user_id, role>>}]),
              1, {})

\* supabase.from('user_roles').update({role: new_role}).eq(user_id).eq(role):
\* the filter reads the row, so the SELECT policy applies as well.
update_user_roles(d, uid, user_id, role, new_role) ==
  IF <<user_id, role>> \notin d.user_roles THEN NoRows(d)
  ELSE IF ~(user_roles_select(d, uid, user_id) /\ user_roles_update(d, uid))
    THEN NoRows(d)
  ELSE IF new_role # role /\ <<user_id, new_role>> \in d.user_roles
    THEN Rejected(d)
  ELSE Result(d, Tx([d EXCEPT !.user_roles =
                       (@ \ {<<user_id, role>>}) \cup {<<user_id, new_role>>}]),
              1, {})

\* supabase.from('user_roles').delete().eq(user_id).eq(role)
delete_user_roles(d, uid, user_id, role) ==
  IF <<user_id, role>> \notin d.user_roles THEN NoRows(d)
  ELSE IF ~(user_roles_select(d, uid, user_id) /\ user_roles_delete(d, uid))
    THEN NoRows(d)
  ELSE Result(d, Tx([d EXCEPT !.user_roles = @ \ {<<user_id, role>>}]), 1, {})

\* A row is inserted into auth.users: AFTER INSERT fires handle_new_user.
insert_auth_users(d, new) ==
  IF new \in d.auth_users THEN Rejected(d)
  ELSE Result(d, handle_new_user(Tx([d EXCEPT !.auth_users = @ \cup {new}]), new),
              1, {})

(* ------------------------------ initial state -------------------------- *)
NoItems == [p \in Products |-> 0]
SumItems(f) == f["p1"] * price["p1"] + f["p2"] * price["p2"]

CoIdle == [pc |-> "idle", items |-> NoItems, total |-> 0, mode |-> "UPI",
           order |-> 0, todo |-> {}, cur |-> "none", read |-> 0,
           dstock |-> NoItems, dlog |-> 0]
RaIdle == [pc |-> "idle", id |-> 0, action |-> "none", was |-> "none",
           read |-> 0, dstock |-> 0, dlog |-> 0]

\* The seeded catalogue, one administrator and one customer; bob has no account
\* yet.  The inventory_logs CHECK is either the one the first migration creates
\* or one that also admits what the later triggers write.
Init ==
  /\ auth_users = {"admin", "alice"}
  /\ profiles = {"admin", "alice"}
  /\ user_roles = {<<"admin", "customer">>, <<"admin", "admin">>,
                   <<"alice", "customer">>}
  /\ products = Products
  /\ stock = [p \in Products |-> InitStock]
  /\ discount_percentage = [p \in Products |-> 0]
  /\ cart_items = [u \in Users |-> NoItems]
  /\ orders = <<>>
  /\ order_items = <<>>
  /\ returns = <<>>
  /\ payments = <<>>
  /\ inventory_logs = <<>>
  /\ audit_logs = <<>>
  /\ change_type_check \in
       {change_type_created, change_type_created \cup change_type_written}
  /\ items = [u \in Users |-> NoItems]
  /\ co = [u \in Users |-> CoIdle]
  /\ ra = [u \in Users |-> RaIdle]
  /\ last = [actor |-> Anon, op |-> "none", error |-> FALSE, rows |-> 0,
             seen |-> {}]

\* One statement by actor a: its result r is committed and reported.
Issue(a, op, r) ==
  /\ Within(r.db)
  /\ Commit(r.db)
  /\ last' = [actor |-> a, op |-> op, error |-> r.error, rows |-> r.rows,
              seen |-> r.seen]

(* ------------------------------ CartContext ---------------------------- *)
loadCart(u) ==
  /\ u \in auth_users
  /\ items[u] # cart_items[u]
  /\ Issue(u, "select_cart_items", select_cart_items(DB, u, u))
  /\ items' = [items EXCEPT ![u] = cart_items[u]]
  /\ UNCHANGED <<co, ra>>

addToCart(u, p) ==
  /\ u \in auth_users
  /\ IF items[u][p] # 0
     THEN Issue(u, "update_cart_items",
                update_cart_items(DB, u, u, p, items[u][p] + 1))
     ELSE Issue(u, "insert_cart_items", insert_cart_items(DB, u, u, p, 1))
  /\ UNCHANGED <<items, co, ra>>

removeFromCart(u, p) ==
  /\ u \in auth_users
  /\ items[u][p] # 0
  /\ \E ord \in Orderings(CartRowsFor(DB, u, u, {p})) :
       Issue(u, "delete_cart_items", delete_cart_items(DB, u, u, ord))
  /\ UNCHANGED <<items, co, ra>>

updateQuantity(u, p, quantity) ==
  /\ u \in auth_users
  /\ items[u][p] # 0
  /\ IF quantity < 1
     THEN \E ord \in Orderings(CartRowsFor(DB, u, u, {p})) :
            Issue(u, "delete_cart_items", delete_cart_items(DB, u, u, ord))
     ELSE Issue(u, "update_cart_items",
                update_cart_items(DB, u, u, p, quantity))
  /\ UNCHANGED <<items, co, ra>>

(* ------------------------------ Checkout ------------------------------- *)
\* What a statement's result adds to the handler's own account of its effects.
StockDelta(r) == [p \in Products |-> r.db.stock[p] - stock[p]]
LogDelta(r) == Len(r.db.inventory_logs) - Len(inventory_logs)
AddDelta(f, r) == [p \in Products |-> f[p] + StockDelta(r)[p]]

\* Where the loop over the captured items goes next.
LoopPc(todo) == IF todo = {} THEN "payment" ELSE "item"

\* handleCheckout up to its first await: the order row is inserted.
checkoutOrder(u, mode) ==
  /\ u \in auth_users
  /\ co[u].pc \in {"idle", "done", "failed"}
  /\ \E p \in Products : items[u][p] # 0
  /\ LET r == insert_orders(DB, u, u, SumItems(items[u]), mode)
     IN /\ Issue(u, "insert_orders", r)
        /\ co' = [co EXCEPT ![u] =
             [CoIdle EXCEPT
                !.pc = IF r.error THEN "failed"
                       ELSE LoopPc({p \in Products : items[u][p] # 0}),
                !.items = items[u], !.total = SumItems(items[u]),
                !.mode = mode, !.order = IF r.error THEN 0 ELSE r.rows,
                !.todo = {p \in Products : items[u][p] # 0}]]
  /\ UNCHANGED <<items, ra>>

\* for (const item of items): insert the order item.
checkoutItem(u) ==
  /\ co[u].pc = "item"
  /\ \E p \in co[u].todo :
       LET r == insert_order_items(DB, u, co[u].order, p, co[u].items[p])
       IN /\ Issue(u, "insert_order_items", r)
          /\ co' = [co EXCEPT ![u].pc = IF r.error THEN "failed" ELSE "select",
                              ![u].cur = p,
                              ![u].dstock = AddDelta(@, r),
                              ![u].dlog = @ + LogDelta(r)]
  /\ UNCHANGED <<items, ra>>

\* supabase.from('products').select('stock').eq('id', item.id).single()
checkoutSelect(u) ==
  /\ co[u].pc = "select"
  /\ co' = [co EXCEPT ![u].pc = "update", ![u].read = stock[co[u].cur]]
  /\ last' = [actor |-> u, op |-> "select_products", error |-> FALSE,
              rows |-> 1, seen |-> {}]
  /\ UNCHANGED <<tables, items, ra>>

\* const newStock = product.stock - item.quantity; update({ stock: newStock })
checkoutUpdate(u) ==
  /\ co[u].pc = "update"
  /\ LET r == update_products(DB, u, co[u].cur,
                              co[u].read - co[u].items[co[u].cur])
     IN /\ Issue(u, "update_products", r)
        /\ co' = [co EXCEPT ![u].pc = IF r.error THEN "failed" ELSE "log",
                            ![u].dstock = AddDelta(@, r),
                            ![u].dlog = @ + LogDelta(r)]
  /\ UNCHANGED <<items, ra>>

\* await supabase.from('inventory_logs').insert(...): the result is not looked at.
checkoutLog(u) ==
  /\ co[u].pc = "log"
  /\ LET r == insert_inventory_logs(DB, u, co[u].cur,
                                    -co[u].items[co[u].cur], "sale")
     IN /\ Issue(u, "insert_inventory_logs", r)
        /\ co' = [co EXCEPT ![u].pc = LoopPc(co[u].todo \ {co[u].cur}),
                            ![u].todo = @ \ {co[u].cur},
                            ![u].dstock = AddDelta(@, r),
                            ![u].dlog = @ + LogDelta(r)]
  /\ UNCHANGED <<items, ra>>

\* await supabase.from('payments').insert(...): the result is not looked at.
checkoutPayment(u) ==
  /\ co[u].pc = "payment"
  /\ Issue(u, "insert_payments",
           insert_payments(DB, u, co[u].order, co[u].total, co[u].mode,
                           IF co[u].mode = "COD" THEN "pending" ELSE "paid"))
  /\ co' = [co EXCEPT ![u].pc = "clear"]
  /\ UNCHANGED <<items, ra>>

\* clearCart(); setOrderComplete(true): every cart line of the user is deleted.
clearCart(u) ==
  /\ co[u].pc = "clear"
  /\ \E ord \in Orderings(CartRowsFor(DB, u, u, Products)) :
       LET r == delete_cart_items(DB, u, u, ord)
       IN /\ Issue(u, "delete_cart_items", r)
          /\ co' = [co EXCEPT ![u].pc = "done",
                              ![u].dstock = AddDelta(@, r),
                              ![u].dlog = @ + LogDelta(r)]
  /\ UNCHANGED <<items, ra>>

(* ------------------------------ Dashboard ------------------------------ *)
\* stock: z.number().int().min(0).max(1000000)
productSchema(n) == n >= 0 /\ n <= 1000000

\* Only a user whose role is admin stays on the dashboard.
handleSaveProduct(u, p, n) ==
  /\ u \in auth_users /\ has_role(DB, u, "admin")
  /\ productSchema(n)
  /\ Issue(u, "update_products", update_products(DB, u, p, n))
  /\ UNCHANGED <<items, co, ra>>

\* if (!confirm('Delete this product?')) return; then the delete.
handleDeleteProduct(u, p) ==
  /\ u \in auth_users /\ has_role(DB, u, "admin")
  /\ p \in products
  /\ Issue(u, "delete_products", delete_products(DB, u, p))
  /\ UNCHANGED <<items, co, ra>>

handleUpdateOrderStatus(u, orderId, status) ==
  /\ u \in auth_users /\ has_role(DB, u, "admin")
  /\ orderId \in 1..Len(orders)
  /\ Issue(u, "update_orders", update_orders(DB, u, orderId, status))
  /\ UNCHANGED <<items, co, ra>>

\* handleReturnAction up to its first await: the return's status is updated.
\* The button's row may be stale, so the return may have any status by now.
returnUpdate(u, returnId, action) ==
  /\ u \in auth_users /\ has_role(DB, u, "admin")
  /\ ra[u].pc \in {"idle", "done"}
  /\ returnId \in 1..Len(returns)
  /\ LET r == update_returns(DB, u, returnId, action)
     IN /\ Issue(u, "update_returns", r)
        /\ ra' = [ra EXCEPT ![u] =
             [RaIdle EXCEPT
                !.pc = IF action = "restocked" THEN "select" ELSE "done",
                !.id = returnId, !.action = action,
                !.was = returns[returnId].status,
                !.dstock = r.db.stock[returns[returnId].product_id]
                           - stock[returns[returnId].product_id],
                !.dlog = LogDelta(r)]]
  /\ UNCHANGED <<items, co>>

returnSelect(u) ==
  /\ ra[u].pc = "select"
  /\ ra' = [ra EXCEPT ![u].pc = "update",
                      ![u].read = stock[returns[ra[u].id].product_id]]
  /\ last' = [actor |-> u, op |-> "select_products", error |-> FALSE,
              rows |-> 1, seen |-> {}]
  /\ UNCHANGED <<tables, items, co>>

\* update({ stock: product.stock + quantity }): the result is not looked at.
returnStock(u) ==
  /\ ra[u].pc = "update"
  /\ LET ret == returns[ra[u].id]
         r == update_products(DB, u, ret.product_id, ra[u].read + ret.quantity)
     IN /\ Issue(u, "update_products", r)
        /\ ra' = [ra EXCEPT ![u].pc = "log",
                            ![u].dstock = @ + r.db.stock[ret.product_id]
                                            - stock[ret.product_id],
                            ![u].dlog = @ + LogDelta(r)]
  /\ UNCHANGED <<items, co>>

returnLog(u) ==
  /\ ra[u].pc = "log"
  /\ LET ret == returns[ra[u].id]
         r == insert_inventory_logs(DB, u, ret.product_id, ret.quantity, "return")
     IN /\ Issue(u, "insert_inventory_logs", r)
        /\ ra' = [ra EXCEPT ![u].pc = "done", ![u].dlog = @ + LogDelta(r)]
  /\ UNCHANGED <<items, co>>

(* ------------------------------ accounts ------------------------------- *)
signUp(u) ==
  /\ u \notin auth_users
  /\ Issue(u, "insert_auth_users", insert_auth_users(DB, u))
  /\ UNCHANGED <<items, co, ra>>

\* A customer files a return for a line of an order (no page of the client
\* does this; the returns table is written through the API).
createReturn(u, order_id, p, q) ==
  /\ u \in auth_users
  /\ order_id \in 1..Len(orders)
  /\ \E i \in 1..Len(order_items) :
       order_items[i].order_id = order_id /\ order_items[i].product_id = p
  /\ Issue(u, "insert_returns", insert_returns(DB, u, order_id, p, q))
  /\ UNCHANGED <<items, co, ra>>

(* ------------------------- the API, statement by statement ------------- *)
\* Any actor, signed in or anonymous, may send any statement to the API; the
\* policies decide.  a is the actor, the other parameters are what it asks for.
SignedIn(a) == a = Anon \/ a \in auth_users

apiInsertCart(a, u, p, q) ==
  /\ SignedIn(a)
  /\ Issue(a, "insert_cart_items", insert_cart_items(DB, a, u, p, q))
  /\ UNCHANGED <<items, co, ra>>

apiUpdateCart(a, u, p, q) ==
  /\ SignedIn(a)
  /\ Issue(a, "update_cart_items", update_cart_items(DB, a, u, p, q))
  /\ UNCHANGED <<items, co, ra>>

apiDeleteCart(a, u, p) ==
  /\ SignedIn(a)
  /\ \E ord \in Orderings(CartRowsFor(DB, a, u, {p})) :
       Issue(a, "delete_cart_items", delete_cart_items(DB, a, u, ord))
  /\ UNCHANGED <<items, co, ra>>

apiSelectCart(a, u) ==
  /\ SignedIn(a)
  /\ Issue(a, "select_cart_items", select_cart_items(DB, a, u))
  /\ UNCHANGED <<items, co, ra>>

apiInsertOrder(a, u, total) ==
  /\ SignedIn(a)
  /\ Issue(a, "insert_orders", insert_orders(DB, a, u, total, "UPI"))
  /\ UNCHANGED <<items, co, ra>>

apiUpdateOrder(a, id, status) ==
  /\ SignedIn(a)
  /\ Issue(a, "update_orders", update_orders(DB, a, id, status))
  /\ UNCHANGED <<items, co, ra>>

apiDeleteOrder(a, id) ==
  /\ SignedIn(a)
  /\ Issue(a, "delete_orders", delete_orders(DB, a, id))
  /\ UNCHANGED <<items, co, ra>>

apiSelectOrders(a) ==
  /\ SignedIn(a)
  /\ Issue(a, "select_orders", select_orders(DB, a))
  /\ UNCHANGED <<items, co, ra>>

apiInsertOrderItem(a, id, p, q) ==
  /\ SignedIn(a)
  /\ Issue(a, "insert_order_items", insert_order_items(DB, a, id, p, q))
  /\ UNCHANGED <<items, co, ra>>

apiUpdateProduct(a, p, n) ==
  /\ SignedIn(a)
  /\ Issue(a, "update_products", update_products(DB, a, p, n))
  /\ UNCHANGED <<items, co, ra>>

\* The products of category c, the rows of bulk_update_discount's UPDATE.
ProductsOf(c) == {p \in products : category_id[p] = c}

rpcBulkUpdateDiscount(a, c, n) ==
  /\ SignedIn(a)
  /\ \E ord \in Orderings(ProductsOf(c)) :
       Issue(a, "bulk_update_discount", bulk_update_discount(DB, a, ord, n))
  /\ UNCHANGED <<items, co, ra>>

apiInsertRole(a, u, r) ==
  /\ SignedIn(a)
  /\ Issue(a, "insert_user_roles", insert_user_roles(DB, a, u, r))
  /\ UNCHANGED <<items, co, ra>>

apiUpdateRole(a, u, r, r2) ==
  /\ SignedIn(a)
  /\ Issue(a, "update_user_roles", update_user_roles(DB, a, u, r, r2))
  /\ UNCHANGED <<items, co, ra>>

apiDeleteRole(a, u, r) ==
  /\ SignedIn(a)
  /\ Issue(a, "delete_user_roles", delete_user_roles(DB, a, u, r))
  /\ UNCHANGED <<items, co, ra>>

apiInsertReturn(a, id, p, q) ==
  /\ SignedIn(a)
  /\ Issue(a, "insert_returns", insert_returns(DB, a, id, p, q))
  /\ UNCHANGED <<items, co, ra>>

apiUpdateReturn(a, id, status) ==
  /\ SignedIn(a)
  /\ Issue(a, "update_returns", update_returns(DB, a, id, status))
  /\ UNCHANGED <<items, co, ra>>

apiDeleteReturn(a, id) ==
  /\ SignedIn(a)
  /\ Issue(a, "delete_returns", delete_returns(DB, a, id))
  /\ UNCHANGED <<items, co, ra>>

apiSelectReturns(a) ==
  /\ SignedIn(a)
  /\ Issue(a, "select_returns", select_returns(DB, a))
  /\ UNCHANGED <<items, co, ra>>

(* ------------------------------ specifications ------------------------- *)
NextCart(U) ==
  \/ \E u \in U : loadCart(u)
  \/ \E u \in U, p \in Products : addToCart(u, p)
  \/ \E u \in U, p \in Products : removeFromCart(u, p)
  \/ \E u \in U, p \in Products :
       \E q \in {items[u][p] - 1, items[u][p] + 1} : updateQuantity(u, p, q)

NextCheckout(U) ==
  \/ \E u \in U, m \in {"UPI", "COD"} : checkoutOrder(u, m)
  \/ \E u \in U : checkoutItem(u)
  \/ \E u \in U : checkoutSelect(u)
  \/ \E u \in U : checkoutUpdate(u)
  \/ \E u \in U : checkoutLog(u)
  \/ \E u \in U : checkoutPayment(u)
  \/ \E u \in U : clearCart(u)

NextReturn ==
  \/ \E u \in Users, id \in 1..MaxReturns :
       \E a \in {"approved", "restocked", "rejected"} : returnUpdate(u, id, a)
  \/ \E u \in Users : returnSelect(u)
  \/ \E u \in Users : returnStock(u)
  \/ \E u \in Users : returnLog(u)

\* The shop as its pages drive it: a customer fills a cart and checks out, an
\* administrator edits products, and a stock below zero is asked of the API.
Next ==
  \/ NextCart({"alice"})
  \/ NextCheckout({"alice"})
  \/ \E p \in Products, n \in {0, InitStock + 1} :
       handleSaveProduct("admin", p, n)
  \/ \E a \in {Anon, "admin"}, p \in Products : apiUpdateProduct(a, p, -1)
  \/ \E u \in Users : signUp(u)

Spec == Init /\ [][Next]_vars

\* Returns: a customer places an order and files a return, and an
\* administrator acts on it from the dashboard.
NextReturns ==
  \/ apiInsertOrder("alice", "alice", 1)
  \/ \E id \in 1..MaxOrders, p \in Products, q \in 1..MaxQty :
       apiInsertOrderItem("alice", id, p, q)
  \/ \E id \in 1..MaxOrders, p \in Products, q \in 1..MaxQty :
       createReturn("alice", id, p, q)
  \/ \E id \in 1..MaxOrders : handleUpdateOrderStatus("admin", id, "completed")
  \/ NextReturn

SpecReturns == Init /\ [][NextReturns]_vars

\* The API as customers may call it on the rows that have an owner; only an
\* administrator's update of an order or of a return finds a row.
Callers == {"alice", "bob"}

NextApi ==
  \/ \E a \in Callers, u \in Callers : apiInsertCart(a, u, "p1", 1)
  \/ \E a \in Callers, u \in Callers : apiUpdateCart(a, u, "p1", MaxQty)
  \/ \E a \in Callers, u \in Callers : apiDeleteCart(a, u, "p1")
  \/ \E a \in Callers, u \in Callers : apiSelectCart(a, u)
  \/ \E a \in Callers, u \in Callers : apiInsertOrder(a, u, 1)
  \/ \E a \in Users, id \in 1..MaxOrders : apiUpdateOrder(a, id, "cancelled")
  \/ \E a \in Callers, id \in 1..MaxOrders : apiDeleteOrder(a, id)
  \/ \E a \in Callers : apiSelectOrders(a)
  \/ \E a \in Callers, id \in 1..MaxOrders : apiInsertOrderItem(a, id, "p2", 1)
  \/ \E a \in Callers, id \in 1..MaxOrders : apiInsertReturn(a, id, "p2", 1)
  \/ \E a \in Users, id \in 1..MaxReturns : apiUpdateReturn(a, id, "approved")
  \/ \E a \in Callers, id \in 1..MaxReturns : apiDeleteReturn(a, id)
  \/ \E a \in Callers : apiSelectReturns(a)
  \/ \E u \in Users : signUp(u)

SpecApi == Init /\ [][NextApi]_vars

\* Return statuses as an administrator may set them, in any order, through
\* the API or from dashboards that show a return as it was.
NextStatus ==
  \/ apiInsertOrder("alice", "alice", 1)
  \/ \E id \in 1..MaxOrders, p \in Products, q \in 1..MaxQty :
       apiInsertOrderItem("alice", id, p, q)
  \/ \E id \in 1..MaxOrders, p \in Products, q \in 1..MaxQty :
       createReturn("alice", id, p, q)
  \/ \E id \in 1..MaxReturns, st \in return_status :
       apiUpdateReturn("admin", id, st)

SpecStatus == Init /\ [][NextStatus]_vars

\* An administrator shops and checks out while a customer reserves stock.
NextAdminShop ==
  \/ NextCart({"admin"})
  \/ NextCheckout({"admin"})
  \/ \E p \in Products : addToCart("alice", p)
  \/ loadCart("alice")

SpecAdminShop == Init /\ [][NextAdminShop]_vars

\* An administrator restocks a return while a customer reserves stock.
NextRace ==
  \/ apiInsertOrder("alice", "alice", 1)
  \/ \E id \in 1..MaxOrders, p \in Products :
       apiInsertOrderItem("alice", id, p, 1)
  \/ \E id \in 1..MaxOrders, p \in Products : createReturn("alice", id, p, 1)
  \/ \E id \in 1..MaxReturns : returnUpdate("admin", id, "restocked")
  \/ returnSelect("admin")
  \/ returnStock("admin")
  \/ returnLog("admin")
  \/ \E p \in Products : addToCart("alice", p)
  \/ loadCart("alice")

SpecRace == Init /\ [][NextRace]_vars

\* Two users fill their carts from the same stock.
NextCarts == NextCart({"alice", "admin"})

SpecCarts == Init /\ [][NextCarts]_vars

\* Signed-in users call the bulk discount function while a cart is filled.
Discounts == {0, 15, 101}

NextDiscount ==
  \/ \E a \in {"alice", "admin"}, c \in categories, n \in Discounts :
       rpcBulkUpdateDiscount(a, c, n)
  \/ \E p \in Products : addToCart("alice", p)
  \/ loadCart("alice")

SpecDiscount == Init /\ [][NextDiscount]_vars

\* Accounts are created and every caller, signed in or not, writes role rows.
NextRoles ==
  \/ \E u \in Users : signUp(u)
  \/ \E a \in Actors, u \in Users, r \in app_role : apiInsertRole(a, u, r)
  \/ \E a \in Actors, u \in Users, r \in app_role, r2 \in app_role :
       apiUpdateRole(a, u, r, r2)
  \/ \E a \in Actors, u \in Users, r \in app_role : apiDeleteRole(a, u, r)

SpecRoles == Init /\ [][NextRoles]_vars

\* A customer fills and empties a cart while the administrator deletes
\* products from the dashboard.
NextDelete ==
  \/ NextCart({"alice"})
  \/ \E p \in Products : handleDeleteProduct("admin", p)

SpecDelete == Init /\ [][NextDelete]_vars

\* An order of alice's with its lines, and every caller trying to change or
\* delete it, with statuses inside and outside the accepted set.
StatusesTried == order_status \cup {"shipped"}

NextOrders ==
  \/ \E total \in 1..2 : apiInsertOrder("alice", "alice", total)
  \/ \E id \in 1..MaxOrders, p \in Products :
       apiInsertOrderItem("alice", id, p, 1)
  \/ \E a \in Actors, id \in 1..MaxOrders, st \in StatusesTried :
       apiUpdateOrder(a, id, st)
  \/ \E a \in Actors, id \in 1..MaxOrders : apiDeleteOrder(a, id)
  \/ \E id \in 1..MaxOrders, st \in order_status :
       handleUpdateOrderStatus("admin", id, st)

SpecOrders == Init /\ [][NextOrders]_vars

\* Two users insert cart lines and one of them inserts order lines: every
\* stock change is made by a trigger.
NextTriggers ==
  \/ apiInsertOrder("alice", "alice", 1)
  \/ \E id \in 1..MaxOrders, p \in Products, q \in 1..MaxQty :
       apiInsertOrderItem("alice", id, p, q)
  \/ \E u \in {"alice", "admin"}, p \in Products, q \in 1..MaxQty :
       apiInsertCart(u, u, p, q)

SpecTriggers == Init /\ [][NextTriggers]_vars

(* ------------------------------ properties ----------------------------- *)
\* The signed sum of the inventory log deltas recorded for product p.
RECURSIVE LogSum(_, _)
LogSum(log, p) ==
  IF log = <<>> THEN 0
  ELSE (IF Head(log).product_id = p THEN Head(log).quantity ELSE 0)
       + LogSum(Tail(log), p)

\* C1: in every reachable state, every product's stock equals its initial
\* stock plus the signed sum of the inventory log deltas recorded for it.
C1_Reconciliation ==
  \A p \in Products : stock[p] = InitStock + LogSum(inventory_logs, p)

C3_SingleRestock ==
  \A u \in Users :
    (ra[u].pc = "done" /\ ra[u].action = "restocked" /\ ra[u].was # "restocked")
      => (ra[u].dstock = returns[ra[u].id].quantity /\ ra[u].dlog = 1)

\* A user who holds the customer role only.
CustomerOnly(u) == u \in auth_users /\ ~has_role(DB, u, "admin")

Lines(u) == {p \in Products : co[u].items[p] # 0}

\* The step on which u's checkout clears a cart that holds what was captured.
Completes(u) ==
  co[u].pc = "clear" /\ co'[u].pc = "done" /\ cart_items[u] = co[u].items

\* What a completed checkout leaves whoever the user is: the order line, the
\* sale entry, the empty cart.
Sold(u) ==
  /\ cart_items'[u] = NoItems
  /\ \A p \in Lines(u) :
       /\ \E i \in 1..Len(order_items') :
            order_items'[i] = [order_id |-> co[u].order, product_id |-> p,
                               quantity |-> co[u].items[p], price |-> price[p]]
       /\ \E i \in 1..Len(inventory_logs') :
            inventory_logs'[i] = [product_id |-> p, quantity |-> -co[u].items[p],
                                  change_type |-> "sale"]

OnlyCarts ==
  /\ Len(audit_logs) = Len(inventory_logs)
  /\ \A i \in 1..Len(inventory_logs) :
       inventory_logs[i].change_type \in {"cart_reserved", "cart_released"}

\* The units of p held in carts.
Reserved(p) ==
  cart_items["admin"][p] + cart_items["alice"][p] + cart_items["bob"][p]

C8_StockNonNegative ==
  /\ [](\A p \in Products : stock[p] >= 0)
  /\ [][last'.error => UNCHANGED tables]_vars

\* alice's order line was refused because it would take the stock below zero.
C8_Witness ==
  /\ last.actor = "alice" /\ last.op = "insert_order_items" /\ last.error
  /\ co["alice"].pc = "failed"
  /\ \E p \in Products : stock[p] - co["alice"].items[p] < 0

C10_RoleBootstrap ==
  [][\A u \in Users :
       (u \notin auth_users /\ u \in auth_users') =>
         /\ {r \in app_role : <<u, r>> \in user_roles'} = {"customer"}
         /\ u \in profiles'
         /\ user_roles' \ {<<u, "customer">>} = user_roles
         /\ profiles' \ {u} = profiles
    ]_vars

\* bob has signed up.
C10_Witness ==
  /\ "bob" \in auth_users /\ "bob" \in profiles
  /\ last.actor = "bob" /\ last.op = "insert_auth_users" /\ ~last.error

\* The units of p the log records as returned to stock.
RECURSIVE ReturnedLogged(_, _)
ReturnedLogged(log, p) ==
  IF log = <<>> THEN 0
  ELSE (IF Head(log).product_id = p /\ Head(log).change_type = "return"
        THEN Head(log).quantity ELSE 0)
       + ReturnedLogged(Tail(log), p)

\* The units of p that return records ask to put back.
RECURSIVE ReturnedAsked(_, _)
ReturnedAsked(rs, p) ==
  IF rs = <<>> THEN 0
  ELSE (IF Head(rs).product_id = p THEN Head(rs).quantity ELSE 0)
       + ReturnedAsked(Tail(rs), p)

C13_AddToCartReserves ==
  [][\A u \in Users :
       (/\ last'.actor = u /\ last'.op = "insert_cart_items"
        /\ cart_items[u] = items[u]
        /\ \A p \in Products : stock[p] >= 1) =>
         /\ ~last'.error
         /\ \E p \in Products :
              /\ cart_items[u][p] = 0
              /\ cart_items' = [cart_items EXCEPT ![u][p] = 1]
              /\ stock' = [stock EXCEPT ![p] = @ - 1]
              /\ inventory_logs' =
                   Append(inventory_logs,
                          [product_id |-> p, quantity |-> -1,
                           change_type |-> "cart_reserved"])
    ]_vars

\* C14: the explicit stock writes of the return action and of checkout never
\* overwrite a change committed since they read the stock: the write that adds
\* (takes) q leaves the stock q above (below) what it was just before the write.
C14_NoLostUpdate ==
  [][\A u \in Users :
       /\ (ra[u].pc = "update" /\ ra'[u].pc = "log" /\ last'.rows = 1) =>
            stock'[returns[ra[u].id].product_id] =
              stock[returns[ra[u].id].product_id] + returns[ra[u].id].quantity
       /\ (co[u].pc = "update" /\ co'[u].pc = "log" /\ last'.rows = 1) =>
            stock'[co[u].cur] = stock[co[u].cur] - co[u].items[co[u].cur]
    ]_vars

\* The units of p on order lines.
RECURSIVE Ordered(_, _)
Ordered(ois, p) ==
  IF ois = <<>> THEN 0
  ELSE (IF Head(ois).product_id = p THEN Head(ois).quantity ELSE 0)
       + Ordered(Tail(ois), p)

\* The units of p on returns whose status is restocked.
RECURSIVE Restocked(_, _)
Restocked(rs, p) ==
  IF rs = <<>> THEN 0
  ELSE (IF Head(rs).product_id = p /\ Head(rs).status = "restocked"
        THEN Head(rs).quantity ELSE 0)
       + Restocked(Tail(rs), p)

\* C15: for every product, stock plus the quantities of the existing cart
\* lines equals the initial stock minus the quantities of its order lines plus
\* the quantities of its restocked returns.
C15_ReservedInStock ==
  \A p \in Products :
    stock[p] + Reserved(p) =
      InitStock - Ordered(order_items, p) + Restocked(returns, p)

\* C16: a stock adjustment and its log append are one unit: no step changes a
\* stock without appending a log entry or appends a log entry without changing
\* a stock, and when a restock action is over the stock it has added is the
\* return's quantity once per log entry it has appended.
C16_StockAndLogOneUnit ==
  /\ [](\A u \in Users :
          (ra[u].pc = "done" /\ ra[u].action = "restocked") =>
            ra[u].dstock = returns[ra[u].id].quantity * ra[u].dlog)
  /\ [][(stock' # stock) <=> (inventory_logs' # inventory_logs)]_vars

\* The statements by which a cart reserves stock.
Reserving == {"insert_cart_items", "update_cart_items"}

C20_BulkDiscountAdminOnly ==
  [][(/\ last'.op = "bulk_update_discount"
      /\ ~has_role(DB, last'.actor, "admin"))
       => /\ discount_percentage' = discount_percentage
          /\ stock' = stock
    ]_vars

\* C21: apart from the customer row that account creation inserts, a role
\* row is inserted, changed or deleted only by an actor who already holds the
\* admin role; so actors holding only the customer role never create an admin
\* row.
C21_RoleWritesNeedAdmin ==
  [][user_roles' # user_roles =>
       \/ /\ last'.op = "insert_auth_users"
          /\ user_roles' = user_roles \cup {<<last'.actor, "customer">>}
       \/ /\ last'.op \in {"insert_user_roles", "update_user_roles",
                           "delete_user_roles"}
          /\ has_role(DB, last'.actor, "admin")
    ]_vars

\* bob, who has signed up and holds only the customer role, has asked for a
\* role row and was refused: he still holds the customer row alone.
C21_Witness ==
  /\ last.actor = "bob" /\ last.op = "insert_user_roles" /\ last.error
  /\ <<"bob", "customer">> \in user_roles
  /\ <<"bob", "admin">> \notin user_roles

\* C25: in every reachable state every existing user holds at least the
\* customer role, whatever role rows administrators insert, change or delete.
C25_EveryUserIsCustomer ==
  \A u \in auth_users : has_role(DB, u, "customer")

StockOnly == {"insert_cart_items", "update_cart_items", "delete_cart_items",
              "insert_order_items", "update_returns"}

PaymentsOf(id) == {i \in 1..Len(payments) : payments[i].order_id = id}

C26_OrderStatusAdminOnly ==
  /\ [](\A id \in 1..Len(orders) : orders[id].status \in order_status)
  /\ [][/\ Len(orders') >= Len(orders)
        /\ \A id \in 1..Len(orders) :
             orders'[id] # orders[id] =>
               /\ last'.op = "update_orders"
               /\ has_role(DB, last'.actor, "admin")
               /\ stock' = stock
               /\ inventory_logs' = inventory_logs
       ]_vars

\* The administrator has completed alice's order, which has a line; the stock
\* is what the line left and the log holds the sale alone.
C26_Witness ==
  /\ last.op = "update_orders" /\ last.actor = "admin" /\ last.rows = 1
  /\ Len(orders) = 1 /\ orders[1].user_id = "alice"
  /\ orders[1].status = "completed"
  /\ Len(order_items) = 1 /\ order_items[1].product_id = "p1"
  /\ stock["p1"] = InitStock - 1
  /\ Len(inventory_logs) = 1

\* The units of product p on the lines of order id.
RECURSIVE OrderedIn(_, _, _)
OrderedIn(lines, id, p) ==
  IF lines = <<>> THEN 0
  ELSE (IF Head(lines).order_id = id /\ Head(lines).product_id = p
        THEN Head(lines).quantity ELSE 0)
       + OrderedIn(Tail(lines), id, p)

\* C27: the quantity of every return is at most the quantity of its product
\* in the order it references.
C27_ReturnWithinOrder ==
  \A i \in 1..Len(returns) :
    returns[i].quantity
      <= OrderedIn(order_items, returns[i].order_id, returns[i].product_id)

TakingStock == {"insert_cart_items", "insert_order_items"}

\* The log entries of product p with change type t.
EntriesOf(p, t) ==
  {i \in 1..Len(inventory_logs) :
     inventory_logs[i].product_id = p /\ inventory_logs[i].change_type = t}

====
